---- MODULE Spec2Model ----
(***************************************************************************)
(* State-machine model of bit::utility::lock_free::Pipe<T, N, S> together  *)
(* with the ChunkList it is built on and the MemoryAllocator<Chunk, S>     *)
(* that recycles whole chunks: the system allocator (S = 0), the single    *)
(* cached block (S = 1) and the ring of S cached blocks (S >= 2).          *)
(*                                                                         *)
(* A slot address is the pair <<chunk, position>>; the null pointer of a   *)
(* slot is NullSlot and the null pointer of a chunk is NULL.  Memory that  *)
(* was never initialised holds UNINIT; reading it is a nondeterministic    *)
(* choice over the values the memory can hold.  The element type is int,   *)
(* as in the demonstration program: moving out of a slot copies it and the *)
(* destructor does nothing, so a slot keeps the last value written to it.  *)
(* Only SpecExc takes an element type whose constructor, move assignment   *)
(* and destructor can throw; alive is the set of slots that hold an        *)
(* element whose lifetime has begun and not ended.                         *)
(***************************************************************************)
EXTENDS Integers, Sequences, FiniteSets, Bags, TLC

\* ----------------------------------------------------------------------
\* Bounds of the model
\* ----------------------------------------------------------------------
\* chunk size (template parameter N of Pipe / ChunkList)
N == 3
\* number of distinct chunk addresses the system allocator can hand out
NumChunks == 4
\* number of write calls of the free-running producer; the k-th write of a
\* run writes the value k
MaxWrites == 3
\* number of read calls of the free-running consumer that return true
MaxReads == 3
\* number of push calls of the blocking Queue example
MaxPush == 5
\* number of write calls of the demonstration program
MaxDemoWrites == 6
\* cache size of the ring allocator (template parameter S, S >= 2)
RingS == 2
\* number of blocks the callers of the allocator hold at a time
MaxHeld == 3
\* number of alloc and free calls of the threads that call the allocator
MaxCalls == 9
\* number of chunks linked in the list of the ChunkList that calls the
\* allocator
MaxLinked == 2
\* number of write calls of the producer whose consumer keeps the wake-up
\* discipline
MaxAwakeWrites == 6

\* ----------------------------------------------------------------------
\* Encoding of pointers and slot contents
\* ----------------------------------------------------------------------
NULL == 0
UNINIT == -1
Junk == -2
Chunks == 1..NumChunks
Positions == 0..(N - 1)
Values == 1..MaxWrites
NullSlot == <<NULL, 0>>
\* the producer thread and the consumer thread
Threads == {"p", "c"}

VARIABLES
    \* ChunkList members
    mBeginChunk, mBeginPos, mBackChunk, mBackPos, mEndChunk, mEndPos,
    \* chunk memory: Chunk::next, Chunk::prev, Chunk::data
    next, prev, data,
    \* the slots that hold a constructed element, and the slots whose memory
    \* was passed to ::operator delete while they held one
    alive, undestroyed,
    \* template parameter S of the run
    S,
    \* MemoryAllocator<Chunk, 1>::mPtr, the blocks the system allocator has
    \* handed out and not got back, and how many addresses it has ever used
    mPtr, sysLive, sysUsed,
    \* MemoryAllocator<Chunk, S>, S >= 2: the ring and its two indices
    mQueueBuffer, mHead, mTail,
    \* Pipe members
    mLastFlushEnd, mReadEnd, mFlushEnd, mCommitEnd,
    \* position of the producer and of the consumer inside an operation,
    \* and whether the process has died of a null dereference / bad delete
    pcP, pcC, crashed,
    \* Queue example members and the position of its two threads
    mRunning, mHasNotify, qP, qC,
    \* position of the demonstration program
    dpc,
    \* the threads that call the allocator directly: position inside alloc
    \* or free, the locals head, tail and ptr, and the bag of the blocks
    \* handed out by alloc and not yet passed to free
    rpc, tHead, tTail, tPtr, out,
    \* the argument of the last free call of a single-threaded caller with
    \* the allocated and the cached blocks before it, the number of alloc
    \* and free calls made so far, and the chunks linked from mBeginChunk to
    \* mEndChunk when the callers are the push, unpush and pop of a ChunkList
    lastFree, nCalls, linked,
    \* the operation of the element type that threw last, for an element
    \* type whose constructor, move assignment and destructor can throw
    thrown,
    \* history variables
    nWrites, pending, visible, published, reads, unwrites, retracted,
    retC, lastFlush, lastUnwrite, sleepPending, sleptSinceFlush, drained,
    pushed, popped

listVars == <<mBeginChunk, mBeginPos, mBackChunk, mBackPos, mEndChunk, mEndPos>>
memVars == <<next, prev, data, alive, undestroyed>>
poolVars == <<S, mPtr, sysLive, sysUsed, mQueueBuffer, mHead, mTail>>
heapVars == <<listVars, memVars, poolVars, crashed>>
pipeVars == <<mLastFlushEnd, mReadEnd, mFlushEnd, mCommitEnd>>
queueVars == <<mRunning, mHasNotify, qP, qC, pushed, popped>>
histVars == <<nWrites, pending, visible, published, reads, unwrites,
              retracted, retC, lastFlush, lastUnwrite, sleepPending,
              sleptSinceFlush, drained>>
callVars == <<rpc, tHead, tTail, tPtr, out, lastFree, nCalls, linked,
              thrown>>
vars == <<heapVars, pipeVars, pcP, pcC, queueVars, dpc, histVars, callVars>>

\* ----------------------------------------------------------------------
\* Sequences
\* ----------------------------------------------------------------------
Range(s) == {s[i] : i \in 1..Len(s)}
IsPrefix(s, t) == Len(s) <= Len(t) /\ \A i \in 1..Len(s) : s[i] = t[i]
Front(s) == SubSeq(s, 1, Len(s) - 1)
Last(s) == s[Len(s)]
Count(s, v) == Cardinality({i \in 1..Len(s) : s[i] = v})

\* ----------------------------------------------------------------------
\* The heap as one record, so that the chunk-list operations compose
\* ----------------------------------------------------------------------
Heap ==
    [beginChunk |-> mBeginChunk, beginPos |-> mBeginPos,
     backChunk |-> mBackChunk, backPos |-> mBackPos,
     endChunk |-> mEndChunk, endPos |-> mEndPos,
     next |-> next, prev |-> prev, data |-> data, alive |-> alive,
     undestroyed |-> undestroyed,
     S |-> S, ptr |-> mPtr, live |-> sysLive, used |-> sysUsed,
     buf |-> mQueueBuffer, head |-> mHead, tail |-> mTail,
     crashed |-> crashed]

SetHeap(h) ==
    /\ mBeginChunk' = h.beginChunk /\ mBeginPos' = h.beginPos
    /\ mBackChunk' = h.backChunk /\ mBackPos' = h.backPos
    /\ mEndChunk' = h.endChunk /\ mEndPos' = h.endPos
    /\ next' = h.next /\ prev' = h.prev /\ data' = h.data
    /\ alive' = h.alive /\ undestroyed' = h.undestroyed
    /\ S' = h.S /\ mPtr' = h.ptr /\ sysLive' = h.live /\ sysUsed' = h.used
    /\ mQueueBuffer' = h.buf /\ mHead' = h.head /\ mTail' = h.tail
    /\ crashed' = h.crashed

\* the process dies (null dereference, delete of a block that is not allocated)
Crash(h) == [h EXCEPT !.crashed = TRUE]

\* the values a read of the pointer field p can yield
Deref(p) == IF p = UNINIT THEN Chunks \cup {NULL} ELSE {p}

\* the values moving out of a slot can yield: an uninitialised int is one of
\* the values of the run or some other int
SlotValues(x) == IF x = UNINIT THEN Values \cup {Junk} ELSE {x}

\* ----------------------------------------------------------------------
\* MemoryAllocator<T, 0>: the system allocator
\* ----------------------------------------------------------------------
\* ::operator new returns any block that is not allocated; the addresses it
\* has never handed out are interchangeable, so the lowest stands for them
alloc0(h) ==
    {[h |-> [h EXCEPT !.live = @ \cup {c},
                      !.used = IF c > h.used THEN c ELSE h.used],
      c |-> c] : c \in {x \in Chunks \ h.live : x <= h.used + 1}}

free0(h, c) ==
    IF c = NULL THEN h
    ELSE IF c \notin h.live THEN Crash(h)
    ELSE [h EXCEPT !.live = @ \ {c},
                   !.next[c] = UNINIT, !.prev[c] = UNINIT,
                   !.data[c] = [p \in Positions |-> UNINIT],
                   !.alive = {sl \in @ : sl[1] # c},
                   !.undestroyed = @ \cup {sl \in h.alive : sl[1] = c}]

\* ----------------------------------------------------------------------
\* MemoryAllocator<T, 1>: one cached block
\* ----------------------------------------------------------------------
alloc1(h) ==
    IF h.ptr # NULL
    THEN {[h |-> [h EXCEPT !.ptr = NULL], c |-> h.ptr]}
    ELSE alloc0(h)

\* free1 that returns at once when the pointer is null
free1_NullReturns(h, c) ==
    LET tmp == h.ptr
        h1 == [h EXCEPT !.ptr = c]
    IN  IF c = NULL THEN h ELSE IF tmp # NULL THEN free0(h1, tmp) ELSE h1

free1(h, c) ==
    LET tmp == h.ptr
        h1 == [h EXCEPT !.ptr = c]
    IN  IF tmp # NULL THEN free0(h1, tmp) ELSE h1

\* ----------------------------------------------------------------------
\* MemoryAllocator<T, S>, S >= 2: alloc and free run by one thread with no
\* other thread inside the allocator
\* ----------------------------------------------------------------------
\* the physical slot of the virtual index i (rHead, rTail)
rIndex(i, s) == IF i < s THEN i ELSE i - s

allocS(h) ==
    IF h.head = h.tail THEN alloc0(h)
    ELSE UNION {
           LET h1 == [h EXCEPT !.head = (h.head + 1) % (2 * h.S)]
           IN  IF p = NULL THEN alloc0(h1) ELSE {[h |-> h1, c |-> p]}
           : p \in Deref(h.buf[rIndex(h.head, h.S)])}

freeS(h, c) ==
    IF c = NULL THEN h
    ELSE IF h.head + h.S = h.tail \/ h.tail + h.S = h.head THEN free0(h, c)
    ELSE [h EXCEPT !.tail = (h.tail + 1) % (2 * h.S),
                   !.buf[rIndex(h.tail, h.S)] = c]

\* the blocks the allocator holds in its cache: none for S = 0, mPtr for
\* S = 1, the slots from mHead up to mTail for S >= 2
cached(h) ==
    IF h.S = 0 THEN {}
    ELSE IF h.S = 1 THEN {h.ptr} \ {NULL}
    ELSE {h.buf[rIndex((h.head + i) % (2 * h.S), h.S)] :
            i \in 0..(((h.tail - h.head) % (2 * h.S)) - 1)}

\* ChunkList::mAllocator is a MemoryAllocator<Chunk, S>
mAllocatorAlloc(h) ==
    IF h.S = 0 THEN alloc0(h) ELSE IF h.S = 1 THEN alloc1(h) ELSE allocS(h)

mAllocatorFree(h, c) ==
    IF h.S = 0 THEN free0(h, c) ELSE IF h.S = 1 THEN free1(h, c)
    ELSE freeS(h, c)

\* ----------------------------------------------------------------------
\* ChunkList
\* ----------------------------------------------------------------------
front == <<mBeginChunk, mBeginPos>>
back == <<mBackChunk, mBackPos>>

\* push that takes a new chunk for every element
push_ChunkPerElement(h) ==
    LET h1 == [h EXCEPT !.backChunk = h.endChunk, !.backPos = h.endPos]
    IN  {[r.h EXCEPT !.next[h.endChunk] = r.c,
                     !.prev[r.c] = h.endChunk,
                     !.endChunk = r.c,
                     !.endPos = 0] : r \in mAllocatorAlloc(h1)}

push(h) ==
    LET h1 == [h EXCEPT !.backChunk = h.endChunk, !.backPos = h.endPos]
    IN  IF h.endPos + 1 # N
        THEN {[h1 EXCEPT !.endPos = h.endPos + 1]}
        ELSE {[r.h EXCEPT !.next[h.endChunk] = r.c,
                          !.prev[r.c] = h.endChunk,
                          !.endChunk = r.c,
                          !.endPos = 0] : r \in mAllocatorAlloc(h1)}

\* unpushBack with the step back into the previous chunk left out
unpushBack_NoCross(h) ==
    IF h.backPos # 0
    THEN {[h EXCEPT !.backPos = h.backPos - 1]}
    ELSE {[h EXCEPT !.backPos = N - 1]}

unpushBack(h) ==
    IF h.backPos # 0
    THEN {[h EXCEPT !.backPos = h.backPos - 1]}
    ELSE {[h EXCEPT !.backPos = N - 1, !.backChunk = b] :
             b \in Deref(h.prev[h.backChunk])}

\* unpushEnd that steps mEndChunk back and keeps the trailing chunk
unpushEnd_KeepsChunk(h) ==
    IF h.endPos # 0
    THEN {[h EXCEPT !.endPos = h.endPos - 1]}
    ELSE UNION {
           IF e = NULL THEN {Crash(h)}
           ELSE {[h EXCEPT !.endPos = N - 1, !.endChunk = e,
                           !.next[e] = NULL]}
           : e \in Deref(h.prev[h.endChunk])}

unpushEnd(h) ==
    IF h.endPos # 0
    THEN {[h EXCEPT !.endPos = h.endPos - 1]}
    ELSE UNION {
           IF e = NULL THEN {Crash(h)}
           ELSE {[mAllocatorFree([h EXCEPT !.endPos = N - 1,
                                           !.endChunk = e], nx)
                     EXCEPT !.next[e] = NULL] : nx \in Deref(h.next[e])}
           : e \in Deref(h.prev[h.endChunk])}

unpush(h) == UNION {unpushEnd(g) : g \in unpushBack(h)}

pop(h) ==
    IF h.beginPos + 1 # N
    THEN {[h EXCEPT !.beginPos = h.beginPos + 1]}
    ELSE {IF nx = NULL THEN Crash(h)
          ELSE mAllocatorFree([h EXCEPT !.beginChunk = nx, !.prev[nx] = NULL,
                                        !.beginPos = 0], h.beginChunk)
          : nx \in Deref(h.next[h.beginChunk])}

\* ChunkList::~ChunkList after steps chunks were passed to free: the chunks
\* from mBeginChunk to mEndChunk are passed to mAllocator.free one by one; a
\* walk that leaves the list reads a null or a released chunk
RECURSIVE listDtorFrom(_, _)
listDtorFrom(h, steps) ==
    IF h.crashed THEN {h}
    ELSE IF h.beginChunk = h.endChunk
    THEN {mAllocatorFree(h, h.beginChunk)}
    ELSE IF h.beginChunk = NULL \/ steps > NumChunks THEN {Crash(h)}
    ELSE UNION {listDtorFrom(mAllocatorFree([h EXCEPT !.beginChunk = nx],
                                            h.beginChunk), steps + 1)
                : nx \in Deref(h.next[h.beginChunk])}

\* ChunkList::~ChunkList
listDtor(h) == listDtorFrom(h, 0)

\* MemoryAllocator::~MemoryAllocator: free(nullptr) for S = 1, nothing for
\* S = 0 and for S >= 2
allocatorDtor(h) == IF h.S = 1 THEN free1(h, NULL) ELSE h

\* Pipe::~Pipe: the destructor of mChunkList, then the destructor of its
\* first member mAllocator
pipeDtor(h) == {allocatorDtor(g) : g \in listDtor(h)}

\* the memory before construction and MemoryAllocator::MemoryAllocator for
\* cache size s: mPtr is null, mHead and mTail are value-initialised, the
\* pointers of mQueueBuffer are not initialised
EmptyHeap(s) ==
    [beginChunk |-> NULL, beginPos |-> 0, backChunk |-> NULL, backPos |-> 0,
     endChunk |-> NULL, endPos |-> 0,
     next |-> [c \in Chunks |-> UNINIT], prev |-> [c \in Chunks |-> UNINIT],
     data |-> [c \in Chunks |-> [p \in Positions |-> UNINIT]], alive |-> {},
     undestroyed |-> {},
     S |-> s, ptr |-> NULL, live |-> {}, used |-> 0,
     buf |-> [i \in 0..(RingS - 1) |-> UNINIT], head |-> 0, tail |-> 0,
     crashed |-> FALSE]

\* ChunkList::ChunkList
ChunkListInit(s) ==
    {[r.h EXCEPT !.beginChunk = r.c, !.endChunk = r.c] :
        r \in mAllocatorAlloc(EmptyHeap(s))}

\* the push of Pipe::Pipe
PipeInit(s) == UNION {push(h) : h \in ChunkListInit(s)}

\* ----------------------------------------------------------------------
\* Pipe: the producer's operations
\* ----------------------------------------------------------------------
\* write that records the address of back() before the push
write_FlushEndBeforePush(incomplete) ==
    /\ ~crashed /\ pcP = "idle"
    /\ LET v == nWrites + 1
           h0 == [Heap EXCEPT !.data[mBackChunk][mBackPos] = v,
                              !.alive = @ \cup {back}]
       IN  /\ \E h \in push(h0) :
                /\ SetHeap(h)
                /\ mFlushEnd' = IF incomplete THEN mFlushEnd
                                ELSE <<mBackChunk, mBackPos>>
           /\ nWrites' = v
           /\ pending' = IF incomplete THEN Append(pending, v) ELSE <<>>
           /\ visible' = IF incomplete THEN visible
                         ELSE visible \o pending \o <<v>>
    /\ UNCHANGED <<mLastFlushEnd, mReadEnd, mCommitEnd, pcP, pcC>>
    /\ UNCHANGED <<published, reads, unwrites, retracted, retC, lastFlush,
                   lastUnwrite, sleepPending, sleptSinceFlush, drained>>

\* Pipe::write(incomplete_, args...): ctor into back(), push, record flushEnd.
\* The value written by the k-th call is k.
write(incomplete) ==
    /\ ~crashed /\ pcP = "idle"
    /\ LET v == nWrites + 1
           h0 == [Heap EXCEPT !.data[mBackChunk][mBackPos] = v,
                              !.alive = @ \cup {back}]
       IN  /\ \E h \in push(h0) :
                /\ SetHeap(h)
                /\ mFlushEnd' = IF incomplete THEN mFlushEnd
                                ELSE <<h.backChunk, h.backPos>>
           /\ nWrites' = v
           /\ pending' = IF incomplete THEN Append(pending, v) ELSE <<>>
           /\ visible' = IF incomplete THEN visible
                         ELSE visible \o pending \o <<v>>
    /\ UNCHANGED <<mLastFlushEnd, mReadEnd, mCommitEnd, pcP, pcC>>
    /\ UNCHANGED <<published, reads, unwrites, retracted, retC, lastFlush,
                   lastUnwrite, sleepPending, sleptSinceFlush, drained>>

\* Pipe::unwrite(value_)
unwrite ==
    /\ ~crashed /\ pcP = "idle"
    /\ IF mFlushEnd = back
       THEN /\ lastUnwrite' = [called |-> TRUE, ret |-> FALSE,
                               hadTail |-> pending # <<>>]
            /\ UNCHANGED <<heapVars, pending, unwrites, retracted>>
       ELSE \E h \in unpush(Heap) :
              IF h.crashed \/ h.backChunk = NULL
              THEN /\ SetHeap(Crash(h))
                   /\ UNCHANGED <<pending, unwrites, retracted, lastUnwrite>>
              ELSE \E val \in SlotValues(h.data[h.backChunk][h.backPos]) :
                     /\ SetHeap([h EXCEPT !.alive =
                                   @ \ {<<h.backChunk, h.backPos>>}])
                     /\ unwrites' = Append(unwrites, val)
                     /\ retracted' = IF pending # <<>>
                                     THEN Append(retracted, Last(pending))
                                     ELSE retracted
                     /\ pending' = IF pending # <<>> THEN Front(pending)
                                   ELSE pending
                     /\ lastUnwrite' = [called |-> TRUE, ret |-> TRUE,
                                        hadTail |-> pending # <<>>]
    /\ UNCHANGED <<pipeVars, pcP, pcC>>
    /\ UNCHANGED <<nWrites, visible, published, reads, retC, lastFlush,
                   sleepPending, sleptSinceFlush, drained>>

\* flushCAS that leaves mLastFlushEnd alone after a successful CAS
flushCAS_KeepsLastFlushEnd ==
    /\ ~crashed /\ pcP = "idle"
    /\ IF mLastFlushEnd = mFlushEnd
       THEN /\ lastFlush' = [adv |-> FALSE, ret |-> TRUE,
                             slept |-> sleepPending,
                             sleptSinceCall |-> sleptSinceFlush]
            /\ sleptSinceFlush' = FALSE
            /\ UNCHANGED <<pipeVars, pcP, published, drained, sleepPending>>
       ELSE IF mCommitEnd = mLastFlushEnd
       THEN /\ mCommitEnd' = mFlushEnd
            /\ UNCHANGED mLastFlushEnd
            /\ lastFlush' = [adv |-> TRUE, ret |-> TRUE,
                             slept |-> sleepPending,
                             sleptSinceCall |-> sleptSinceFlush]
            /\ published' = visible
            /\ drained' = FALSE
            /\ sleepPending' = FALSE
            /\ sleptSinceFlush' = FALSE
            /\ UNCHANGED <<mReadEnd, mFlushEnd, pcP>>
       ELSE /\ mLastFlushEnd' = mCommitEnd
            /\ pcP' = "flush_store"
            /\ UNCHANGED <<mReadEnd, mFlushEnd, mCommitEnd, lastFlush,
                           published, drained, sleepPending, sleptSinceFlush>>
    /\ UNCHANGED <<heapVars, pcC>>
    /\ UNCHANGED <<nWrites, pending, visible, reads, unwrites, retracted,
                   retC, lastUnwrite>>

\* Pipe::flush up to and including the compare_exchange_strong on mCommitEnd
flushCAS ==
    /\ ~crashed /\ pcP = "idle"
    /\ IF mLastFlushEnd = mFlushEnd
       THEN /\ lastFlush' = [adv |-> FALSE, ret |-> TRUE,
                             slept |-> sleepPending,
                             sleptSinceCall |-> sleptSinceFlush]
            /\ sleptSinceFlush' = FALSE
            /\ UNCHANGED <<pipeVars, pcP, published, drained, sleepPending>>
       ELSE IF mCommitEnd = mLastFlushEnd
       THEN /\ mCommitEnd' = mFlushEnd
            /\ mLastFlushEnd' = mFlushEnd
            /\ lastFlush' = [adv |-> TRUE, ret |-> TRUE,
                             slept |-> sleepPending,
                             sleptSinceCall |-> sleptSinceFlush]
            /\ published' = visible
            /\ drained' = FALSE
            /\ sleepPending' = FALSE
            /\ sleptSinceFlush' = FALSE
            /\ UNCHANGED <<mReadEnd, mFlushEnd, pcP>>
       ELSE /\ mLastFlushEnd' = mCommitEnd
            /\ pcP' = "flush_store"
            /\ UNCHANGED <<mReadEnd, mFlushEnd, mCommitEnd, lastFlush,
                           published, drained, sleepPending, sleptSinceFlush>>
    /\ UNCHANGED <<heapVars, pcC>>
    /\ UNCHANGED <<nWrites, pending, visible, reads, unwrites, retracted,
                   retC, lastUnwrite>>

\* flushStore that returns true after the store
flushStore_ReturnsTrue ==
    /\ ~crashed /\ pcP = "flush_store"
    /\ mCommitEnd' = mFlushEnd
    /\ mLastFlushEnd' = mFlushEnd
    /\ pcP' = "idle"
    /\ lastFlush' = [adv |-> TRUE, ret |-> TRUE, slept |-> sleepPending,
                     sleptSinceCall |-> sleptSinceFlush]
    /\ published' = visible
    /\ drained' = FALSE
    /\ sleepPending' = FALSE
    /\ sleptSinceFlush' = FALSE
    /\ UNCHANGED <<heapVars, mReadEnd, mFlushEnd, pcC>>
    /\ UNCHANGED <<nWrites, pending, visible, reads, unwrites, retracted,
                   retC, lastUnwrite>>

\* Pipe::flush after a failed compare_exchange_strong: store and return false
flushStore ==
    /\ ~crashed /\ pcP = "flush_store"
    /\ mCommitEnd' = mFlushEnd
    /\ mLastFlushEnd' = mFlushEnd
    /\ pcP' = "idle"
    /\ lastFlush' = [adv |-> TRUE, ret |-> FALSE, slept |-> sleepPending,
                     sleptSinceCall |-> sleptSinceFlush]
    /\ published' = visible
    /\ drained' = FALSE
    /\ sleepPending' = FALSE
    /\ sleptSinceFlush' = FALSE
    /\ UNCHANGED <<heapVars, mReadEnd, mFlushEnd, pcC>>
    /\ UNCHANGED <<nWrites, pending, visible, reads, unwrites, retracted,
                   retC, lastUnwrite>>

\* ----------------------------------------------------------------------
\* Pipe: the consumer's operations
\* ----------------------------------------------------------------------
\* checkReadBody that returns false without storing null into mCommitEnd
checkReadBody_NoSleepMark(onTrue, onFalse, pcTrue) ==
    /\ IF front # mReadEnd /\ mReadEnd # NullSlot
       THEN /\ retC' = onTrue /\ pcC' = pcTrue
            /\ UNCHANGED <<mReadEnd, mCommitEnd, sleepPending,
                           sleptSinceFlush, drained>>
       ELSE IF mCommitEnd = mReadEnd
       THEN /\ retC' = onFalse /\ pcC' = "idle"
            /\ sleepPending' = TRUE
            /\ sleptSinceFlush' = TRUE
            /\ drained' = TRUE
            /\ UNCHANGED <<mReadEnd, mCommitEnd>>
       ELSE /\ mReadEnd' = mCommitEnd
            /\ retC' = onTrue /\ pcC' = pcTrue
            /\ UNCHANGED <<mCommitEnd, sleepPending, sleptSinceFlush,
                           drained>>
    /\ UNCHANGED <<heapVars, mLastFlushEnd, mFlushEnd, pcP>>
    /\ UNCHANGED <<nWrites, pending, visible, published, reads, unwrites,
                   retracted, lastFlush, lastUnwrite>>

\* the body of Pipe::check_read; onTrue and onFalse name the outcome recorded
\* in retC, pcTrue the position of the consumer after a true result
checkReadBody(onTrue, onFalse, pcTrue) ==
    /\ IF front # mReadEnd /\ mReadEnd # NullSlot
       THEN /\ retC' = onTrue /\ pcC' = pcTrue
            /\ UNCHANGED <<mReadEnd, mCommitEnd, sleepPending,
                           sleptSinceFlush, drained>>
       ELSE IF mCommitEnd = mReadEnd
       THEN /\ mCommitEnd' = NullSlot
            /\ retC' = onFalse /\ pcC' = "idle"
            /\ sleepPending' = TRUE
            /\ sleptSinceFlush' = TRUE
            /\ drained' = TRUE
            /\ UNCHANGED mReadEnd
       ELSE /\ mReadEnd' = mCommitEnd
            /\ retC' = onTrue /\ pcC' = pcTrue
            /\ UNCHANGED <<mCommitEnd, sleepPending, sleptSinceFlush,
                           drained>>
    /\ UNCHANGED <<heapVars, mLastFlushEnd, mFlushEnd, pcP>>
    /\ UNCHANGED <<nWrites, pending, visible, published, reads, unwrites,
                   retracted, lastFlush, lastUnwrite>>

\* Pipe::check_read called on its own
check_read ==
    /\ ~crashed /\ pcC = "idle"
    /\ checkReadBody("check_true", "check_false", "idle")

\* Pipe::read: the call of check_read
readCheck ==
    /\ ~crashed /\ pcC = "idle"
    /\ checkReadBody("read_check", "read_false", "read_move")

\* readMove that leaves front() where it is
readMove_KeepsFront ==
    /\ ~crashed /\ pcC = "read_move"
    /\ \E val \in SlotValues(data[mBeginChunk][mBeginPos]) :
         /\ SetHeap([Heap EXCEPT !.alive = @ \ {front}])
         /\ reads' = Append(reads, val)
         /\ retC' = "read_true"
    /\ pcC' = "idle"
    /\ UNCHANGED <<pipeVars, pcP>>
    /\ UNCHANGED <<nWrites, pending, visible, published, unwrites, retracted,
                   lastFlush, lastUnwrite, sleepPending, sleptSinceFlush,
                   drained>>

\* Pipe::read after check_read returned true: move out of front(), dtor, pop
readMove ==
    /\ ~crashed /\ pcC = "read_move"
    /\ \E val \in SlotValues(data[mBeginChunk][mBeginPos]) :
         \E h \in pop([Heap EXCEPT !.alive = @ \ {front}]) :
            /\ SetHeap(h)
            /\ IF h.crashed
               THEN UNCHANGED <<reads, retC>>
               ELSE /\ reads' = Append(reads, val)
                    /\ retC' = "read_true"
    /\ pcC' = "idle"
    /\ UNCHANGED <<pipeVars, pcP>>
    /\ UNCHANGED <<nWrites, pending, visible, published, unwrites, retracted,
                   lastFlush, lastUnwrite, sleepPending, sleptSinceFlush,
                   drained>>

\* ----------------------------------------------------------------------
\* One producer thread and one consumer thread calling the pipe freely
\* ----------------------------------------------------------------------
harnessVars == <<queueVars, dpc, callVars>>

\* Pipe::Pipe for cache size s, and the harness before its first step
InitS(s) ==
    /\ \E h \in PipeInit(s) :
         /\ mBeginChunk = h.beginChunk /\ mBeginPos = h.beginPos
         /\ mBackChunk = h.backChunk /\ mBackPos = h.backPos
         /\ mEndChunk = h.endChunk /\ mEndPos = h.endPos
         /\ next = h.next /\ prev = h.prev /\ data = h.data
         /\ alive = h.alive /\ undestroyed = h.undestroyed
         /\ S = h.S /\ mPtr = h.ptr /\ sysLive = h.live /\ sysUsed = h.used
         /\ mQueueBuffer = h.buf /\ mHead = h.head /\ mTail = h.tail
         /\ crashed = h.crashed
         /\ mReadEnd = <<h.backChunk, h.backPos>>
         /\ mLastFlushEnd = <<h.backChunk, h.backPos>>
         /\ mFlushEnd = <<h.backChunk, h.backPos>>
         /\ mCommitEnd = <<h.backChunk, h.backPos>>
    /\ pcP = "idle" /\ pcC = "idle"
    /\ mRunning = TRUE /\ mHasNotify = FALSE /\ qP = "idle" /\ qC = "idle"
    /\ dpc = "produce"
    /\ nWrites = 0 /\ pending = <<>> /\ visible = <<>> /\ published = <<>>
    /\ reads = <<>> /\ unwrites = <<>> /\ retracted = <<>>
    /\ retC = "none"
    /\ lastFlush = [adv |-> FALSE, ret |-> TRUE, slept |-> FALSE,
                    sleptSinceCall |-> FALSE]
    /\ lastUnwrite = [called |-> FALSE, ret |-> FALSE, hadTail |-> FALSE]
    /\ sleepPending = FALSE /\ sleptSinceFlush = FALSE /\ drained = FALSE
    /\ pushed = <<>> /\ popped = <<>>
    /\ rpc = [t \in Threads |-> "idle"]
    /\ tHead = [t \in Threads |-> 0] /\ tTail = [t \in Threads |-> 0]
    /\ tPtr = [t \in Threads |-> NULL]
    /\ out = SetToBag({mBeginChunk})
    /\ lastFree = [called |-> FALSE, ptr |-> NULL, live |-> {},
                    cached |-> {}]
    /\ nCalls = 0
    /\ linked = <<mBeginChunk>>
    /\ thrown = "none"

\* Pipe<T, N>: the default cache size S = 1
Init == InitS(1)

\* Pipe<T, N, S> for a cache size of 0, 1 or RingS
InitPool == \E s \in {0, 1, RingS} : InitS(s)

Write ==
    /\ nWrites < MaxWrites
    /\ \E incomplete \in BOOLEAN : write(incomplete)
    /\ UNCHANGED harnessVars

Unwrite == Len(unwrites) < MaxWrites /\ unwrite /\ UNCHANGED harnessVars
FlushCAS == flushCAS /\ UNCHANGED harnessVars
FlushStore == flushStore /\ UNCHANGED harnessVars
CheckRead == check_read /\ UNCHANGED harnessVars
ReadCheck == Len(reads) < MaxReads /\ readCheck /\ UNCHANGED harnessVars
ReadMove == readMove /\ UNCHANGED harnessVars

Next ==
    \/ Write
    \/ Unwrite
    \/ FlushCAS
    \/ FlushStore
    \/ CheckRead
    \/ ReadCheck
    \/ ReadMove

Spec == Init /\ [][Next]_vars

\* ----------------------------------------------------------------------
\* One producer thread and one consumer thread, the consumer keeping the
\* wake-up discipline: after a read or check_read that returned false it
\* calls neither until a flush issued afterwards has returned false
\* ----------------------------------------------------------------------
AwakeWrite ==
    /\ nWrites < MaxAwakeWrites
    /\ \E incomplete \in BOOLEAN : write(incomplete)
    /\ UNCHANGED harnessVars

AwakeUnwrite == unwrite /\ UNCHANGED harnessVars
AwakeFlushCAS == flushCAS /\ UNCHANGED harnessVars
AwakeFlushStore == flushStore /\ UNCHANGED harnessVars
AwakeCheckRead == ~sleepPending /\ check_read /\ UNCHANGED harnessVars
AwakeReadCheck == ~sleepPending /\ readCheck /\ UNCHANGED harnessVars
AwakeReadMove == readMove /\ UNCHANGED harnessVars

NextAwake ==
    \/ AwakeWrite
    \/ AwakeUnwrite
    \/ AwakeFlushCAS
    \/ AwakeFlushStore
    \/ AwakeCheckRead
    \/ AwakeReadCheck
    \/ AwakeReadMove

SpecAwake == Init /\ [][NextAwake]_vars

\* ----------------------------------------------------------------------
\* The blocking Queue of the usage example: push, pop and close
\* ----------------------------------------------------------------------
\* Queue::push: the test of mRunning and mPipe.write(value, false)
QPush ==
    /\ qP = "idle" /\ nWrites < MaxPush
    /\ IF mRunning
       THEN /\ write(FALSE)
            /\ pushed' = Append(pushed, nWrites + 1)
            /\ qP' = "flush"
       ELSE UNCHANGED <<heapVars, pipeVars, pcP, pcC, histVars, pushed, qP>>
    /\ UNCHANGED <<mRunning, mHasNotify, qC, popped, dpc>>
    /\ UNCHANGED callVars

\* Queue::push: mPipe.flush() up to its CAS; a true result ends push
QPushFlushCAS ==
    /\ qP = "flush"
    /\ flushCAS
    /\ qP' = IF pcP' = "idle" THEN "idle" ELSE "flush"
    /\ UNCHANGED <<mRunning, mHasNotify, qC, pushed, popped, dpc>>
    /\ UNCHANGED callVars

\* Queue::push: mPipe.flush() stores the frontier and returns false
QPushFlushStore ==
    /\ qP = "flush"
    /\ flushStore
    /\ qP' = "notify"
    /\ UNCHANGED <<mRunning, mHasNotify, qC, pushed, popped, dpc>>
    /\ UNCHANGED callVars

\* QPushNotify that notifies without setting mHasNotify
QPushNotify_NoFlag ==
    /\ qP = "notify" /\ ~crashed
    /\ qP' = "idle"
    /\ UNCHANGED <<heapVars, pipeVars, pcP, pcC, histVars>>
    /\ UNCHANGED <<mRunning, mHasNotify, qC, pushed, popped, dpc>>
    /\ UNCHANGED callVars

\* Queue::push: under the mutex mHasNotify = true, then notify_one
QPushNotify ==
    /\ qP = "notify" /\ ~crashed
    /\ mHasNotify' = TRUE
    /\ qP' = "idle"
    /\ UNCHANGED <<heapVars, pipeVars, pcP, pcC, histVars>>
    /\ UNCHANGED <<mRunning, qC, pushed, popped, dpc>>
    /\ UNCHANGED callVars

\* Queue::pop: mPipe.read(value) up to the result of check_read
QPopRead ==
    /\ qC \in {"idle", "retry"} /\ Len(reads) <= MaxPush
    /\ readCheck
    /\ qC' = IF pcC' = "read_move" THEN "move" ELSE "wait"
    /\ UNCHANGED <<mRunning, mHasNotify, qP, pushed, popped, dpc>>
    /\ UNCHANGED callVars

\* Queue::pop: mPipe.read(value) moves the value out; pop returns true
QPopMove ==
    /\ qC = "move"
    /\ readMove
    /\ popped' = IF crashed' THEN popped ELSE Append(popped, Last(reads'))
    /\ qC' = "idle"
    /\ UNCHANGED <<mRunning, mHasNotify, qP, pushed, dpc>>
    /\ UNCHANGED callVars

\* Queue::pop: wait under the mutex until mHasNotify or !mRunning, clear
\* mHasNotify, return false when the queue is closed, else retry the read.
\* The consumer thread calls pop until pop returns false.
QPopWait ==
    /\ qC = "wait" /\ ~crashed
    /\ mHasNotify \/ ~mRunning
    /\ mHasNotify' = FALSE
    /\ qC' = IF mRunning THEN "retry" ELSE "closed"
    /\ UNCHANGED <<heapVars, pipeVars, pcP, pcC, histVars>>
    /\ UNCHANGED <<mRunning, qP, pushed, popped, dpc>>
    /\ UNCHANGED callVars

\* close: under the mutex mRunning = false, then notify_one
QClose ==
    /\ mRunning /\ ~crashed
    /\ mRunning' = FALSE
    /\ UNCHANGED <<heapVars, pipeVars, pcP, pcC, histVars>>
    /\ UNCHANGED <<mHasNotify, qP, qC, pushed, popped, dpc>>
    /\ UNCHANGED callVars

NextQ ==
    \/ QPush
    \/ QPushFlushCAS
    \/ QPushFlushStore
    \/ QPushNotify
    \/ QPopRead
    \/ QPopMove
    \/ QPopWait
    \/ QClose

\* both threads are scheduled: a push that has started runs to its end, and
\* the consumer keeps calling pop
SpecQ ==
    /\ Init /\ [][NextQ]_vars
    /\ WF_vars(QPushFlushCAS) /\ WF_vars(QPushFlushStore)
    /\ WF_vars(QPushNotify)
    /\ WF_vars(QPopRead) /\ WF_vars(QPopMove) /\ WF_vars(QPopWait)

\* ----------------------------------------------------------------------
\* The demonstration program: one thread writes and unwrites, then writes
\* a last value with incomplete = false, flushes and reads until read
\* returns false
\* ----------------------------------------------------------------------
\* pipe.write(i, incomplete) of the first loop; one write is kept for the end
DemoWrite ==
    /\ dpc = "produce" /\ nWrites < MaxDemoWrites - 1
    /\ \E incomplete \in BOOLEAN : write(incomplete)
    /\ UNCHANGED <<queueVars, dpc>>
    /\ UNCHANGED callVars

\* pipe.unwrite(value) of the second loop
DemoUnwrite ==
    /\ dpc = "produce"
    /\ unwrite
    /\ UNCHANGED <<queueVars, dpc>>
    /\ UNCHANGED callVars

\* a flush between the writes
DemoFlush ==
    /\ dpc = "produce"
    /\ flushCAS
    /\ UNCHANGED <<queueVars, dpc>>
    /\ UNCHANGED callVars

\* pipe.write(-1, false)
DemoFinalWrite ==
    /\ dpc = "produce"
    /\ write(FALSE)
    /\ dpc' = "flush"
    /\ UNCHANGED queueVars
    /\ UNCHANGED callVars

\* pipe.flush()
DemoFinalFlush ==
    /\ dpc = "flush"
    /\ flushCAS
    /\ dpc' = "drain"
    /\ UNCHANGED queueVars
    /\ UNCHANGED callVars

\* while (pipe.read(value)): the call of check_read inside read
DemoReadCheck ==
    /\ dpc = "drain"
    /\ readCheck
    /\ dpc' = IF pcC' = "read_move" THEN "drain" ELSE "done"
    /\ UNCHANGED queueVars
    /\ UNCHANGED callVars

\* while (pipe.read(value)): the value is moved out and printed
DemoReadMove ==
    /\ dpc = "drain"
    /\ readMove
    /\ UNCHANGED <<queueVars, dpc>>
    /\ UNCHANGED callVars

NextDemo ==
    \/ DemoWrite
    \/ DemoUnwrite
    \/ DemoFlush
    \/ DemoFinalWrite
    \/ DemoFinalFlush
    \/ DemoReadCheck
    \/ DemoReadMove

SpecDemo == Init /\ [][NextDemo]_vars

\* ----------------------------------------------------------------------
\* The demonstration program with an element type whose constructor, move
\* assignment and destructor can throw; the caller catches the exception
\* and goes on
\* ----------------------------------------------------------------------
allocCallVars == <<rpc, tHead, tTail, tPtr, out, lastFree, nCalls, linked>>

\* write: ctor(&mChunkList.back(), args...) throws, push is not reached
WriteCtorThrows ==
    /\ dpc = "produce" /\ ~crashed /\ pcP = "idle"
    /\ thrown' = "write_ctor"
    /\ UNCHANGED <<heapVars, pipeVars, pcP, pcC, queueVars, dpc, histVars,
                   allocCallVars>>

\* unwrite: mChunkList.unpush() has run and value_ = std::move(back())
\* throws, dtor is not reached
UnwriteMoveThrows ==
    /\ dpc = "produce" /\ ~crashed /\ pcP = "idle"
    /\ mFlushEnd # back
    /\ \E h \in unpush(Heap) :
         SetHeap(IF h.backChunk = NULL THEN Crash(h) ELSE h)
    /\ retracted' = IF pending # <<>> THEN Append(retracted, Last(pending))
                    ELSE retracted
    /\ pending' = IF pending # <<>> THEN Front(pending) ELSE pending
    /\ thrown' = "unwrite_move"
    /\ UNCHANGED <<pipeVars, pcP, pcC, queueVars, dpc, allocCallVars>>
    /\ UNCHANGED <<nWrites, visible, published, reads, unwrites, retC,
                   lastFlush, lastUnwrite, sleepPending, sleptSinceFlush,
                   drained>>

\* unwrite: unpush and the move have run and dtor(&mChunkList.back())
\* throws; the lifetime of the element has ended
UnwriteDtorThrows ==
    /\ dpc = "produce" /\ mFlushEnd # back
    /\ unwrite
    /\ thrown' = "unwrite_dtor"
    /\ UNCHANGED <<queueVars, dpc, allocCallVars>>

\* read: check_read returned true and value_ = std::move(front()) throws,
\* dtor and pop are not reached
ReadMoveThrows ==
    /\ dpc = "drain" /\ ~crashed /\ pcC = "read_move"
    /\ pcC' = "idle"
    /\ thrown' = "read_move"
    /\ UNCHANGED <<heapVars, pipeVars, pcP, queueVars, dpc, histVars,
                   allocCallVars>>

\* read: the move has run and dtor(&mChunkList.front()) throws, pop is not
\* reached; the lifetime of the element has ended
ReadDtorThrows ==
    /\ dpc = "drain" /\ ~crashed /\ pcC = "read_move"
    /\ alive' = alive \ {front}
    /\ pcC' = "idle"
    /\ thrown' = "read_dtor"
    /\ UNCHANGED <<listVars, next, prev, data, undestroyed, poolVars,
                   crashed>>
    /\ UNCHANGED <<pipeVars, pcP, queueVars, dpc, histVars, allocCallVars>>

NextExc ==
    \/ NextDemo
    \/ WriteCtorThrows
    \/ UnwriteMoveThrows
    \/ UnwriteDtorThrows
    \/ ReadMoveThrows
    \/ ReadDtorThrows

SpecExc == Init /\ [][NextExc]_vars

\* ----------------------------------------------------------------------
\* The life of a pipe of any cache size in one thread: the operations of
\* the demonstration program, then the destruction of the pipe
\* ----------------------------------------------------------------------
\* the pipe goes out of scope while no operation is in progress
Destroy ==
    /\ dpc # "destroyed" /\ ~crashed /\ pcP = "idle" /\ pcC = "idle"
    /\ \E h \in pipeDtor(Heap) : SetHeap(h)
    /\ dpc' = "destroyed"
    /\ UNCHANGED <<pipeVars, pcP, pcC, queueVars, histVars, callVars>>

NextLife ==
    \/ NextDemo
    \/ Destroy

SpecLife == InitPool /\ [][NextLife]_vars

\* ----------------------------------------------------------------------
\* MemoryAllocator<Chunk, S> called by two threads, one step per access to
\* shared memory.  The block of the ChunkList constructor is handed out.
\* ----------------------------------------------------------------------
\* what the allocator's steps leave alone
pipeSideVars == <<listVars, pipeVars, pcP, pcC, queueVars, dpc, histVars>>

\* allocCall that loads mPtr for S = 1 and leaves it in the cache
allocCall_LoadsCache(t) ==
    /\ rpc[t] = "idle" /\ ~crashed
    /\ IF S = 0
       THEN /\ IF alloc0(Heap) = {}
               THEN UNCHANGED <<heapVars, out>>
               ELSE \E r \in alloc0(Heap) :
                      SetHeap(r.h) /\ out' = out (+) SetToBag({r.c})
            /\ UNCHANGED <<rpc, tHead, tTail, tPtr>>
       ELSE IF S = 1
       THEN /\ tPtr' = [tPtr EXCEPT ![t] = mPtr]
            /\ rpc' = [rpc EXCEPT ![t] = "a_ret"]
            /\ UNCHANGED <<heapVars, tHead, tTail, out>>
       ELSE /\ tHead' = [tHead EXCEPT ![t] = mHead]
            /\ tPtr' = [tPtr EXCEPT ![t] = NULL]
            /\ rpc' = [rpc EXCEPT ![t] = "a_test"]
            /\ UNCHANGED <<heapVars, tTail, out>>
    /\ UNCHANGED pipeSideVars

\* alloc up to its first access: S = 0 is ::operator new; S = 1 is
\* mPtr.exchange(nullptr); S >= 2 is mHead.load()
allocCall(t) ==
    /\ rpc[t] = "idle" /\ ~crashed
    /\ IF S = 0
       THEN /\ IF alloc0(Heap) = {}
               THEN UNCHANGED <<heapVars, out>>
               ELSE \E r \in alloc0(Heap) :
                      SetHeap(r.h) /\ out' = out (+) SetToBag({r.c})
            /\ UNCHANGED <<rpc, tHead, tTail, tPtr>>
       ELSE IF S = 1
       THEN /\ tPtr' = [tPtr EXCEPT ![t] = mPtr]
            /\ mPtr' = NULL
            /\ rpc' = [rpc EXCEPT ![t] = "a_ret"]
            /\ UNCHANGED <<listVars, memVars, S, sysLive, sysUsed,
                           mQueueBuffer, mHead, mTail, crashed>>
            /\ UNCHANGED <<tHead, tTail, out>>
       ELSE /\ tHead' = [tHead EXCEPT ![t] = mHead]
            /\ tPtr' = [tPtr EXCEPT ![t] = NULL]
            /\ rpc' = [rpc EXCEPT ![t] = "a_test"]
            /\ UNCHANGED <<heapVars, tTail, out>>
    /\ UNCHANGED pipeSideVars

\* alloc, S >= 2: if (head == mTail.load()) break
allocTest(t) ==
    /\ rpc[t] = "a_test" /\ ~crashed
    /\ rpc' = [rpc EXCEPT ![t] = IF tHead[t] = mTail THEN "a_ret"
                                 ELSE "a_read"]
    /\ UNCHANGED <<heapVars, tHead, tTail, tPtr, out>>
    /\ UNCHANGED pipeSideVars

\* alloc, S >= 2: ptr = mQueueBuffer[rHead]
allocRead(t) ==
    /\ rpc[t] = "a_read" /\ ~crashed
    /\ \E ptr \in Deref(mQueueBuffer[rIndex(tHead[t], S)]) :
         tPtr' = [tPtr EXCEPT ![t] = ptr]
    /\ rpc' = [rpc EXCEPT ![t] = "a_cas"]
    /\ UNCHANGED <<heapVars, tHead, tTail, out>>
    /\ UNCHANGED pipeSideVars

\* allocCAS with a compare-exchange that can fail although mHead = head
allocCAS_Weak(t) ==
    /\ rpc[t] = "a_cas" /\ ~crashed
    /\ \/ /\ mHead = tHead[t]
          /\ mHead' = (tHead[t] + 1) % (2 * S)
          /\ rpc' = [rpc EXCEPT ![t] = "a_ret"]
          /\ UNCHANGED tHead
       \/ /\ tHead' = [tHead EXCEPT ![t] = mHead]
          /\ rpc' = [rpc EXCEPT ![t] = "a_test"]
          /\ UNCHANGED mHead
    /\ UNCHANGED <<listVars, memVars, S, mPtr, sysLive, sysUsed,
                   mQueueBuffer, mTail, crashed>>
    /\ UNCHANGED <<tTail, tPtr, out>>
    /\ UNCHANGED pipeSideVars

\* alloc, S >= 2: mHead.compare_exchange_strong(head, nHead)
allocCAS(t) ==
    /\ rpc[t] = "a_cas" /\ ~crashed
    /\ IF mHead = tHead[t]
       THEN /\ mHead' = (tHead[t] + 1) % (2 * S)
            /\ rpc' = [rpc EXCEPT ![t] = "a_ret"]
            /\ UNCHANGED tHead
       ELSE /\ tHead' = [tHead EXCEPT ![t] = mHead]
            /\ rpc' = [rpc EXCEPT ![t] = "a_test"]
            /\ UNCHANGED mHead
    /\ UNCHANGED <<listVars, memVars, S, mPtr, sysLive, sysUsed,
                   mQueueBuffer, mTail, crashed>>
    /\ UNCHANGED <<tTail, tPtr, out>>
    /\ UNCHANGED pipeSideVars

\* alloc, S >= 1: return ptr ? ptr : mAllocator.alloc(); ::operator new
\* returns nullptr when no block is left
allocReturn(t) ==
    /\ rpc[t] = "a_ret" /\ ~crashed
    /\ IF tPtr[t] # NULL
       THEN out' = out (+) SetToBag({tPtr[t]}) /\ UNCHANGED heapVars
       ELSE IF alloc0(Heap) = {}
       THEN UNCHANGED <<heapVars, out>>
       ELSE \E r \in alloc0(Heap) : SetHeap(r.h) /\ out' = out (+) SetToBag({r.c})
    /\ rpc' = [rpc EXCEPT ![t] = "idle"]
    /\ tPtr' = [tPtr EXCEPT ![t] = NULL]
    /\ tHead' = [tHead EXCEPT ![t] = 0]
    /\ UNCHANGED tTail
    /\ UNCHANGED pipeSideVars

\* free(ptr) up to its first access, ptr being a block handed out or
\* nullptr: S = 0 is ::operator delete; S = 1 is mPtr.exchange(ptr); S >= 2
\* is the test of ptr and mTail.load()
freeCall(t, ptr) ==
    /\ rpc[t] = "idle" /\ ~crashed
    /\ /\ out' = IF ptr = NULL THEN out ELSE out (-) SetToBag({ptr})
       /\ IF S = 0
          THEN /\ SetHeap(free0(Heap, ptr))
               /\ UNCHANGED <<rpc, tHead, tTail, tPtr>>
          ELSE IF S = 1
          THEN /\ mPtr' = ptr
               /\ tPtr' = [tPtr EXCEPT ![t] = mPtr]
               /\ rpc' = [rpc EXCEPT ![t] = IF mPtr # NULL THEN "f_sys"
                                            ELSE "idle"]
               /\ UNCHANGED <<listVars, memVars, S, sysLive, sysUsed,
                              mQueueBuffer, mHead, mTail, crashed>>
               /\ UNCHANGED <<tHead, tTail>>
          ELSE IF ptr = NULL
          THEN UNCHANGED <<heapVars, rpc, tHead, tTail, tPtr>>
          ELSE /\ tPtr' = [tPtr EXCEPT ![t] = ptr]
               /\ tTail' = [tTail EXCEPT ![t] = mTail]
               /\ rpc' = [rpc EXCEPT ![t] = "f_head"]
               /\ UNCHANGED <<heapVars, tHead>>
    /\ UNCHANGED pipeSideVars

\* free, S >= 2: head = mHead.load() and the test for a full ring
freeHead(t) ==
    /\ rpc[t] = "f_head" /\ ~crashed
    /\ rpc' = [rpc EXCEPT ![t] =
                 IF mHead + S = tTail[t] \/ tTail[t] + S = mHead
                 THEN "f_sys" ELSE "f_cas"]
    /\ UNCHANGED <<heapVars, tHead, tTail, tPtr, out>>
    /\ UNCHANGED pipeSideVars

\* free, S >= 2: mTail.compare_exchange_strong(tail, nTail)
freeCAS(t) ==
    /\ rpc[t] = "f_cas" /\ ~crashed
    /\ IF mTail = tTail[t]
       THEN /\ mTail' = (tTail[t] + 1) % (2 * S)
            /\ rpc' = [rpc EXCEPT ![t] = "f_write"]
            /\ UNCHANGED tTail
       ELSE /\ tTail' = [tTail EXCEPT ![t] = mTail]
            /\ rpc' = [rpc EXCEPT ![t] = "f_head"]
            /\ UNCHANGED mTail
    /\ UNCHANGED <<listVars, memVars, S, mPtr, sysLive, sysUsed,
                   mQueueBuffer, mHead, crashed>>
    /\ UNCHANGED <<tHead, tPtr, out>>
    /\ UNCHANGED pipeSideVars

\* free, S >= 2: mQueueBuffer[rTail] = ptr; ptr = nullptr
freeWrite(t) ==
    /\ rpc[t] = "f_write" /\ ~crashed
    /\ mQueueBuffer' = [mQueueBuffer EXCEPT ![rIndex(tTail[t], S)] = tPtr[t]]
    /\ rpc' = [rpc EXCEPT ![t] = "idle"]
    /\ tPtr' = [tPtr EXCEPT ![t] = NULL]
    /\ tTail' = [tTail EXCEPT ![t] = 0]
    /\ UNCHANGED <<listVars, memVars, S, mPtr, sysLive, sysUsed,
                   mHead, mTail, crashed>>
    /\ UNCHANGED <<tHead, out>>
    /\ UNCHANGED pipeSideVars

\* free, S >= 1: mAllocator.free(ptr) of the system allocator
freeSys(t) ==
    /\ rpc[t] = "f_sys" /\ ~crashed
    /\ SetHeap(free0(Heap, tPtr[t]))
    /\ rpc' = [rpc EXCEPT ![t] = "idle"]
    /\ tPtr' = [tPtr EXCEPT ![t] = NULL]
    /\ tTail' = [tTail EXCEPT ![t] = 0]
    /\ UNCHANGED <<tHead, out>>
    /\ UNCHANGED pipeSideVars

\* the number of alloc calls in progress
Allocating == Cardinality({t \in Threads : rpc[t] \in
                             {"a_test", "a_read", "a_cas", "a_ret"}})

\* any thread allocates, and frees any block that was handed out or nullptr
PoolAlloc ==
    /\ nCalls < MaxCalls /\ BagCardinality(out) + Allocating < MaxHeld
    /\ \E t \in Threads : allocCall(t)
    /\ nCalls' = nCalls + 1 /\ UNCHANGED <<linked, lastFree, thrown>>

PoolAllocTest ==
    (\E t \in Threads : allocTest(t)) /\ UNCHANGED <<nCalls, linked, lastFree, thrown>>
PoolAllocRead ==
    (\E t \in Threads : allocRead(t)) /\ UNCHANGED <<nCalls, linked, lastFree, thrown>>
PoolAllocCAS ==
    (\E t \in Threads : allocCAS(t)) /\ UNCHANGED <<nCalls, linked, lastFree, thrown>>
PoolAllocReturn ==
    (\E t \in Threads : allocReturn(t)) /\ UNCHANGED <<nCalls, linked, lastFree, thrown>>

PoolFree ==
    /\ nCalls < MaxCalls
    /\ \E t \in Threads : \E ptr \in BagToSet(out) \cup {NULL} :
         freeCall(t, ptr)
    /\ nCalls' = nCalls + 1 /\ UNCHANGED <<linked, lastFree, thrown>>

PoolFreeHead ==
    (\E t \in Threads : freeHead(t)) /\ UNCHANGED <<nCalls, linked, lastFree, thrown>>
PoolFreeCAS ==
    (\E t \in Threads : freeCAS(t)) /\ UNCHANGED <<nCalls, linked, lastFree, thrown>>
PoolFreeWrite ==
    (\E t \in Threads : freeWrite(t)) /\ UNCHANGED <<nCalls, linked, lastFree, thrown>>
PoolFreeSys ==
    (\E t \in Threads : freeSys(t)) /\ UNCHANGED <<nCalls, linked, lastFree, thrown>>

NextPool ==
    \/ PoolAlloc
    \/ PoolAllocTest
    \/ PoolAllocRead
    \/ PoolAllocCAS
    \/ PoolAllocReturn
    \/ PoolFree
    \/ PoolFreeHead
    \/ PoolFreeCAS
    \/ PoolFreeWrite
    \/ PoolFreeSys

SpecPool == InitPool /\ [][NextPool]_vars

\* MemoryAllocator<Chunk, 1> called by two threads: the steps of alloc and
\* free that the single-slot allocator has
NextPoolOne ==
    \/ PoolAlloc
    \/ PoolAllocReturn
    \/ PoolFree
    \/ PoolFreeSys

SpecPoolOne == Init /\ [][NextPoolOne]_vars

\* ----------------------------------------------------------------------
\* MemoryAllocator<Chunk, S> called by the ChunkList of a pipe: the producer
\* thread allocates in push and frees in unpush, the consumer thread frees
\* in pop.  Only the pushes, unpushes and pops that cross a chunk boundary
\* are steps; linked is the list from mBeginChunk to mEndChunk.
\* ----------------------------------------------------------------------
\* the block an alloc has just handed out, appended to the list
linkReturned ==
    IF out' = out THEN UNCHANGED linked
    ELSE \E sc \in Chunks :
           out' = out (+) SetToBag({sc}) /\ linked' = Append(linked, sc)

\* ChunkList::push at the end of a chunk: ChunkPtr sc = mAllocator.alloc()
PushAlloc ==
    /\ Len(linked) < MaxLinked
    /\ allocCall("p")
    /\ linkReturned
    /\ UNCHANGED <<nCalls, lastFree, thrown>>

PushAllocTest ==
    allocTest("p") /\ UNCHANGED <<nCalls, linked, lastFree, thrown>>
PushAllocRead ==
    allocRead("p") /\ UNCHANGED <<nCalls, linked, lastFree, thrown>>
PushAllocCAS ==
    allocCAS("p") /\ UNCHANGED <<nCalls, linked, lastFree, thrown>>

\* ChunkList::push: alloc returns and sc is linked after mEndChunk
PushLink ==
    allocReturn("p") /\ linkReturned /\ UNCHANGED <<nCalls, lastFree, thrown>>

\* ChunkList::unpush with mEndPos = 0: mEndChunk steps back and the chunk
\* after it is passed to free
UnpushFree ==
    /\ Len(linked) >= 2
    /\ freeCall("p", Last(linked))
    /\ linked' = Front(linked)
    /\ UNCHANGED <<nCalls, lastFree, thrown>>

\* ChunkList::pop at the end of a chunk: mBeginChunk steps forward and the
\* old head is passed to free
PopFree ==
    /\ Len(linked) >= 2
    /\ freeCall("c", Head(linked))
    /\ linked' = Tail(linked)
    /\ UNCHANGED <<nCalls, lastFree, thrown>>

ProducerFreeStep ==
    /\ freeHead("p") \/ freeCAS("p") \/ freeWrite("p") \/ freeSys("p")
    /\ UNCHANGED <<nCalls, linked, lastFree, thrown>>

ConsumerFreeHead ==
    freeHead("c") /\ UNCHANGED <<nCalls, linked, lastFree, thrown>>
ConsumerFreeCAS ==
    freeCAS("c") /\ UNCHANGED <<nCalls, linked, lastFree, thrown>>
ConsumerFreeWrite ==
    freeWrite("c") /\ UNCHANGED <<nCalls, linked, lastFree, thrown>>
ConsumerFreeSys ==
    freeSys("c") /\ UNCHANGED <<nCalls, linked, lastFree, thrown>>

NextListPool ==
    \/ PushAlloc
    \/ PushAllocTest
    \/ PushAllocRead
    \/ PushAllocCAS
    \/ PushLink
    \/ UnpushFree
    \/ PopFree
    \/ ProducerFreeStep
    \/ ConsumerFreeHead
    \/ ConsumerFreeCAS
    \/ ConsumerFreeWrite
    \/ ConsumerFreeSys

\* each thread runs the call it has started to its end, whatever the other
\* thread does
SpecListPool ==
    /\ InitPool /\ [][NextListPool]_vars
    /\ WF_vars(PushAllocTest) /\ WF_vars(PushAllocRead)
    /\ WF_vars(PushAllocCAS) /\ WF_vars(PushLink)
    /\ WF_vars(ProducerFreeStep)
    /\ WF_vars(ConsumerFreeHead) /\ WF_vars(ConsumerFreeCAS)
    /\ WF_vars(ConsumerFreeWrite) /\ WF_vars(ConsumerFreeSys)

\* ----------------------------------------------------------------------
\* MemoryAllocator<Chunk, S> called by a single thread: every alloc and
\* free runs to its end before the next call
\* ----------------------------------------------------------------------
\* alloc(); when ::operator new has no block left it returns nullptr
PoolSeqAlloc ==
    /\ ~crashed /\ BagCardinality(out) < MaxHeld
    /\ \E r \in mAllocatorAlloc(Heap) :
         SetHeap(r.h) /\ out' = out (+) SetToBag({r.c})
    /\ lastFree' = [lastFree EXCEPT !.called = FALSE]
    /\ UNCHANGED <<pipeVars, pcP, pcC, queueVars, dpc, histVars>>
    /\ UNCHANGED <<rpc, tHead, tTail, tPtr, nCalls, linked, thrown>>

\* free(ptr), ptr being a block handed out or nullptr
PoolSeqFree ==
    /\ ~crashed
    /\ \E ptr \in BagToSet(out) \cup {NULL} :
         /\ SetHeap(mAllocatorFree(Heap, ptr))
         /\ out' = IF ptr = NULL THEN out ELSE out (-) SetToBag({ptr})
         /\ lastFree' = [called |-> TRUE, ptr |-> ptr, live |-> sysLive,
                         cached |-> cached(Heap)]
    /\ UNCHANGED <<pipeVars, pcP, pcC, queueVars, dpc, histVars>>
    /\ UNCHANGED <<rpc, tHead, tTail, tPtr, nCalls, linked, thrown>>

NextPoolSeq ==
    \/ PoolSeqAlloc
    \/ PoolSeqFree

SpecPoolSeq == InitPool /\ [][NextPoolSeq]_vars

\* ----------------------------------------------------------------------
\* Properties of the free-running producer and consumer
\* ----------------------------------------------------------------------
\* C1: FIFO.  The sequence of values returned by the successful reads is a
\* prefix of the sequence of values the producer made visible (written with
\* incomplete = false, or written before such a write and not retracted),
\* in write order.
C1_Fifo == IsPrefix(reads, visible)

\* C2: visibility is gated on flush.  The values read are a prefix of the
\* values a flush has published; check_read (alone or inside read) returns
\* true only while a published value is unread; and a failed CAS in
\* check_read never loads null into readEnd.
C2_VisibilityGatedOnFlush ==
    /\ IsPrefix(reads, published)
    /\ retC \in {"check_true", "read_check"} => Len(reads) < Len(published)
    /\ mReadEnd # NullSlot

\* C3: no duplication.  Every written value is returned by at most one
\* read, and no value is returned both by a read and by an unwrite.
C3_NoDuplication ==
    /\ \A v \in Values : Count(reads, v) <= 1
    /\ Range(reads) \cap Range(unwrites) \cap Values = {}

\* C4: no loss, in the form a finite run decides.  When the consumer has
\* read until read returned false and no flush has published since, every
\* value published by a flush has been returned by a read.
C4_NoLoss == drained => Range(published) \subseteq Range(reads)

\* C5: un-published retraction.  A value that unwrite took back from the
\* incomplete tail is never returned by a read.
C5_RetractedNeverRead == Range(retracted) \cap Range(reads) = {}

\* C6: sleep signalling, forward.  While a read or check_read has returned
\* false and no frontier-advancing flush has completed since, the CAS of
\* flush cannot succeed: the next flush that advances the frontier does not
\* return true, it stores the frontier and returns false.
C6_SleepSignalForward ==
    [][sleepPending =>
         ~(pcP = "idle" /\ pcP' = "idle" /\ mLastFlushEnd' # mLastFlushEnd)]_vars

\* the scenario of C6: A is written, flushed and read, a read fails, B is
\* written and its flush has returned false
C6_Witness ==
    /\ lastFlush.adv /\ ~lastFlush.ret /\ lastFlush.slept
    /\ reads = <<1>> /\ published = <<1, 2>> /\ retC = "read_false"
    /\ pcP = "idle"

C23_PointersNeverNull ==
    /\ [](pcP = "idle" => mCommitEnd \in {NullSlot, mLastFlushEnd})
    /\ [](mFlushEnd # NullSlot /\ mLastFlushEnd # NullSlot)
    /\ [][(mCommitEnd' = NullSlot /\ mCommitEnd # NullSlot) =>
            retC' \in {"check_false", "read_false"}]_vars

\* C23 as amended: shared-pointer invariant.  Whenever the producer is not
\* in the middle of flush, commitEnd is null or equal to lastFlushEnd and
\* lastFlushEnd is not null; flushEnd is never null; and a step that stores
\* null in commitEnd is the failing check_read of the consumer, which
\* leaves the producer's flushEnd and lastFlushEnd alone.
C23_SharedPointerInvariant ==
    /\ [](pcP = "idle" =>
           /\ mCommitEnd \in {NullSlot, mLastFlushEnd}
           /\ mLastFlushEnd # NullSlot)
    /\ [](mFlushEnd # NullSlot)
    /\ [][(mCommitEnd' = NullSlot /\ mCommitEnd # NullSlot) =>
            /\ retC' \in {"check_false", "read_false"}
            /\ pcC = "idle" /\ pcC' = "idle"
            /\ UNCHANGED <<pcP, mFlushEnd, mLastFlushEnd>>]_vars

\* the first value was flushed and read, the next read returned false and
\* stored null in commitEnd, and the second value was written, not flushed
C23_Witness ==
    /\ pcP = "idle" /\ mCommitEnd = NullSlot
    /\ published = <<1>> /\ reads = <<1>> /\ retC = "read_false"
    /\ visible = <<1, 2>> /\ mFlushEnd # mLastFlushEnd

\* C17: frontier tokens stay valid.  In every reachable state none of
\* flushEnd, lastFlushEnd, readEnd and commitEnd, unless it is null, points
\* into a chunk that pop or unpush has returned to the pool: the chunk of
\* the token is allocated and is not the cached block.
C17_TokensStayValid ==
    ~crashed =>
       \A tok \in {mFlushEnd, mLastFlushEnd, mReadEnd, mCommitEnd} :
          tok = NullSlot \/ (tok[1] \in sysLive /\ tok[1] \notin cached(Heap))

\* C24: refinement under the wake-up discipline.  With the single-slot
\* pool and a consumer that keeps the discipline the pipe behaves as a
\* FIFO queue with explicit publication: readEnd is never null, the values
\* the true reads delivered are the oldest published values, each once and
\* in order, check_read and the check of read return true only while a
\* published value is unread, and after a false result, until a flush
\* publishes again, no published value is unread.
C24_RefinesPublishedFifo ==
    /\ ~crashed
    /\ mReadEnd # NullSlot
    /\ IsPrefix(reads, published)
    /\ retC \in {"check_true", "read_check"} => Len(reads) < Len(published)
    /\ drained => reads = published

\* the consumer slept and was woken by a flush that returned false, read
\* past the first chunk, which pop returned to the pool and push took
\* again as the last chunk of the list, and has read every published value
C24_Witness ==
    /\ lastFlush.adv /\ ~lastFlush.ret /\ lastFlush.slept
    /\ Len(reads) > N /\ reads = published /\ retC = "read_true"
    /\ mEndChunk = 1 /\ mBeginChunk = 2 /\ unwrites # <<>>

\* ----------------------------------------------------------------------
\* Properties of the blocking Queue
\* ----------------------------------------------------------------------
\* C8: no lost wake-up.  While mRunning is true, pop returns only pushed
\* values, in the order of the pushes; every pushed value is eventually
\* popped unless the queue is closed; and the consumer does not stay in its
\* wait while a pushed value is unread.
C8_NoLostWakeup ==
    /\ [](mRunning => IsPrefix(popped, pushed))
    /\ \A v \in 1..(MaxPush + 1) :
         (v \in Range(pushed)) ~> (v \in Range(popped) \/ ~mRunning)
    /\ (qC = "wait" /\ Len(popped) < Len(pushed)) ~> (qC # "wait" \/ ~mRunning)

\* the consumer slept, the flush of the second push returned false, the
\* notification was delivered and consumed, and the second value was popped
C8_Witness ==
    /\ mRunning /\ pushed = <<1, 2>> /\ popped = <<1, 2>>
    /\ lastFlush.adv /\ ~lastFlush.ret /\ lastFlush.slept
    /\ qP = "idle" /\ ~mHasNotify

\* ----------------------------------------------------------------------
\* Properties of the demonstration program
\* ----------------------------------------------------------------------
\* C9: unwrite retracts exactly the incomplete tail, last in first out.  An
\* unwrite returns true iff a value written with incomplete = true after the
\* last write with incomplete = false is still unretracted; the values the
\* unwrites yield are the most recent such values, in reverse write order;
\* and an unwrite that returns false changes no state of the pipe.
C9_UnwriteRetractsTail ==
    /\ [](lastUnwrite.called => (lastUnwrite.ret <=> lastUnwrite.hadTail))
    /\ [](unwrites = retracted)
    /\ [][(unwrite /\ ~lastUnwrite'.ret) => UNCHANGED <<heapVars, pipeVars>>]_vars

\* four incomplete writes, three unwrites yielding 4, 3, 2 across a chunk
\* boundary, and after a write with incomplete = false an unwrite that fails
C9_Witness ==
    /\ unwrites = <<4, 3, 2>> /\ nWrites = 5 /\ visible = <<1, 5>>
    /\ lastUnwrite.called /\ ~lastUnwrite.ret

\* C19 as stated: chunk return on retraction.  When an unwrite retracts an
\* element whose slot is the first slot of a chunk that follows another
\* chunk, a chunk is unlinked from the end of the list by that call.
C19_FirstSlotReturnsChunk ==
    [][(/\ Len(unwrites') = Len(unwrites) + 1 /\ ~crashed'
        /\ mBackPos' = 0 /\ mBackChunk' # mBeginChunk)
          => mEndChunk' # mEndChunk]_vars

\* C19 as amended: an unwrite that retracts an element unlinks a chunk iff
\* mEndPos is 0 when it is called; the chunk is the empty trailing chunk
\* mEndChunk, it is returned to the pool by that call, it is not the chunk
\* of the retracted element, and for N >= 2 the retracted element is in
\* slot N - 2 of the chunk before it.
C19_EmptyTrailingChunkReturned ==
    [][(Len(unwrites') = Len(unwrites) + 1 /\ ~crashed') =>
          /\ (mEndPos = 0) <=> (mEndChunk' # mEndChunk)
          /\ mEndPos = 0 =>
                /\ mEndChunk \in cached(Heap)' \/ mEndChunk \notin sysLive'
                /\ mEndChunk \notin {mBackChunk', mEndChunk'}
                /\ next'[mEndChunk'] = NULL
                /\ N >= 2 => mBackPos' = N - 2]_vars

\* N writes with incomplete = true and two unwrites: the second unwrite
\* found mEndPos = 0, retracted the element in slot N - 2 of the first
\* chunk and returned the second chunk to the pool
C19_Witness ==
    /\ nWrites = N /\ Len(unwrites) = 2 /\ lastUnwrite.ret
    /\ mEndChunk = mBeginChunk /\ mEndPos = N - 1 /\ mBackPos = N - 2
    /\ next[mEndChunk] = NULL /\ mPtr \notin {NULL, mEndChunk}

\* the number of chunks from c to mEndChunk along Chunk::next, in a walk
\* of at most n chunks; a walk that does not reach mEndChunk counts more
\* chunks than there are
RECURSIVE chunksFrom(_, _)
chunksFrom(c, n) ==
    IF c = mEndChunk THEN 1
    ELSE IF c \in {NULL, UNINIT} \/ n = 0 THEN NumChunks + 1
    ELSE 1 + chunksFrom(next[c], n - 1)

\* the number of chunks linked from mBeginChunk to mEndChunk
linkedChunks == chunksFrom(mBeginChunk, NumChunks)

\* the number of elements written and not yet read or retracted
unread == nWrites - Len(reads) - Len(unwrites)

Surviving ==
    SelectSeq([i \in 1..nWrites |-> i], LAMBDA v : v \notin Range(unwrites))

\* C10: a write with incomplete = false followed by flush publishes every
\* value written so far and not retracted.  When the demonstration program
\* has read until read returned false, the values read are exactly the
\* surviving values in write order, the last written value at the end.
C10_FlushPublishesSurvivors == dpc = "done" => reads = Surviving

\* incomplete writes of 1..4, unwrites of 4 and 3, the write of 5 with
\* incomplete = false, flush, and the reads of 1, 2, 5 up to the false read
C10_Witness ==
    /\ dpc = "done" /\ unwrites = <<4, 3>> /\ reads = <<1, 2, 5>>
    /\ retC = "read_false"

\* ----------------------------------------------------------------------
\* Properties of a pipe of elements that can throw
\* ----------------------------------------------------------------------
\* the slots from <<c, p>> up to, not including, back(), in a walk of at
\* most n slots along Chunk::next
RECURSIVE slotsFrom(_, _, _)
slotsFrom(c, p, n) ==
    IF <<c, p>> = back \/ c \in {NULL, UNINIT} \/ n = 0 THEN {}
    ELSE {<<c, p>>} \cup (IF p + 1 = N THEN slotsFrom(next[c], 0, n - 1)
                                     ELSE slotsFrom(c, p + 1, n - 1))

\* the slots from front() up to, not including, back()
queued == slotsFrom(mBeginChunk, mBeginPos, N * NumChunks)

\* C15: exception consistency.  Whether or not the constructor, the move
\* or the destructor of the element has thrown inside write, unwrite or
\* read, between two operations every slot from front up to, not including,
\* back holds a live element and no other slot does, the slot at back
\* included; and a constructor that throws in write leaves the cursors of
\* the list and of the pipe unchanged.
C15_ExceptionConsistency ==
    /\ [](~crashed => alive = queued)
    /\ [][WriteCtorThrows => UNCHANGED <<listVars, pipeVars>>]_vars

\* ----------------------------------------------------------------------
\* Properties of the life of a pipe
\* ----------------------------------------------------------------------
\* C14: no chunk leak.  After a pipe of any cache size is destroyed while no
\* operation is in progress, every chunk obtained from the system allocator
\* has been returned to it: none is still allocated, linked or cached.
C14_NoChunkLeak == (dpc = "destroyed" /\ ~crashed) => sysLive = {}

\* C21: teardown destroys the remaining elements.  After a pipe is
\* destroyed no element that was written and neither read nor retracted is
\* left without its destructor having run: no slot holds a live element,
\* and no memory was released while a slot in it held one.
C21_TeardownDestroysElements ==
    (dpc = "destroyed" /\ ~crashed) => (alive = {} /\ undestroyed = {})

\* ----------------------------------------------------------------------
\* Properties of the allocator called by two threads
\* ----------------------------------------------------------------------
\* C11: the ring allocator (S >= 2) is safe for several allocating and
\* several freeing threads.  Under any interleaving every block handed out
\* by alloc is a block of the system allocator that no other caller holds:
\* no block is handed out twice without a free in between.
C11_NoBlockHeldTwice ==
    S >= 2 =>
      /\ \A b \in BagToSet(out) : CopiesIn(b, out) = 1
      /\ BagToSet(out) \subseteq sysLive

\* the block a thread holds in the local tmp of an alloc or free that has
\* run its exchange and not yet returned
inFlight(t) ==
    IF rpc[t] \in {"a_ret", "f_sys"} /\ tPtr[t] # NULL
    THEN SetToBag({tPtr[t]}) ELSE EmptyBag

\* the places a block can be in: held by a caller, in the cache slot, in
\* the local tmp of a call in progress
places ==
    out (+) SetToBag({mPtr} \ {NULL}) (+) inFlight("p") (+) inFlight("c")

\* C22: single-slot pool conservation (S = 1).  Under any interleaving of
\* alloc and free calls every block the system allocator has handed out is
\* in exactly one place (held by a caller, in the cache slot, or in the
\* hands of a call that is about to return or release it), no released
\* block is in any place and nothing is released twice; and a free of a
\* non-null block puts it in the cache slot and takes the block cached
\* before for release.
C22_SingleSlotConservation ==
    /\ [](S = 1 =>
           /\ ~crashed
           /\ \A b \in Chunks :
                 CopiesIn(b, places) = IF b \in sysLive THEN 1 ELSE 0)
    /\ [][(S = 1 /\ BagCardinality(out') < BagCardinality(out)) =>
            /\ CopiesIn(mPtr', out') = CopiesIn(mPtr', out) - 1
            /\ \E t \in Threads :
                  /\ rpc[t] = "idle" /\ tPtr'[t] = mPtr
                  /\ rpc'[t] = IF mPtr # NULL THEN "f_sys" ELSE "idle"]_vars

\* S = 1: a free has put its block in the cache and holds the block cached
\* before for release, while an alloc of the other thread has taken the
\* new block out of the cache and not yet returned
C22_Witness ==
    /\ S = 1 /\ mPtr = NULL
    /\ rpc["c"] = "f_sys" /\ rpc["p"] = "a_ret"
    /\ tPtr["c"] # NULL /\ tPtr["p"] # NULL /\ tPtr["c"] # tPtr["p"]

\* C18: occupancy of the ring (S >= 2).  In every reachable state the number
\* of cached blocks, (mTail - mHead) mod 2S, lies in 0..S, so that a free
\* never takes a slot that still holds a cached block and an alloc never
\* takes a block from an empty ring.
C18_RingOccupancy == S >= 2 => (mTail - mHead) % (2 * S) \in 0..S

\* ----------------------------------------------------------------------
\* Properties of the allocator called by a single thread
\* ----------------------------------------------------------------------
\* C13 as stated: free(nullptr) is a no-op for every cache size.  After a
\* call of free with a null pointer the allocated blocks of the system
\* allocator and the cached blocks are what they were before the call.
C13_FreeNullIsNoOp ==
    (lastFree.called /\ lastFree.ptr = NULL) =>
       /\ sysLive = lastFree.live
       /\ cached(Heap) = lastFree.cached

\* C13 as amended: free(nullptr) is a no-op for the cache sizes 0 and >= 2;
\* for the cache size 1 it empties the cache, releasing the cached block,
\* if there is one, to the system allocator and nothing else.
C13_FreeNullDrainsCacheOfOne ==
    (lastFree.called /\ lastFree.ptr = NULL) =>
       IF S = 1
       THEN /\ cached(Heap) = {}
            /\ sysLive = lastFree.live \ lastFree.cached
       ELSE /\ sysLive = lastFree.live
            /\ cached(Heap) = lastFree.cached

\* free(nullptr) has just been called on a MemoryAllocator<Chunk, 1> that
\* held a cached block
C13_Witness ==
    /\ lastFree.called /\ lastFree.ptr = NULL
    /\ S = 1 /\ lastFree.cached # {} /\ mPtr = NULL

\* ----------------------------------------------------------------------
\* Properties of the allocator called by the ChunkList of a pipe
\* ----------------------------------------------------------------------
\* C12: under the ChunkList's use of a ring allocator (S >= 2) the calls
\* are linearisable.  The alloc of push never hands out a chunk that is
\* still linked in the list (every linked chunk is linked once and is a
\* block of the system allocator), and never reads a slot of the ring that
\* the free of the consumer's pop has reserved and not yet written.
C12_ListUseLinearisable ==
    S >= 2 =>
      /\ \A i, j \in 1..Len(linked) : i # j => linked[i] # linked[j]
      /\ Range(linked) \subseteq sysLive
      /\ ~(/\ rpc["p"] = "a_cas" /\ rpc["c"] = "f_write"
            /\ rIndex(tHead["p"], S) = rIndex(tTail["c"], S))

====
